---- MODULE Spec2Model ----
(***************************************************************************)
(* Model of the semantic data pipeline: the SalesLead schema               *)
(* (data_repair/schemas.py), the row normaliser _prepare_row and the       *)
(* validate -> repair -> bucket loop of DataProcessor.process_csv          *)
(* (semantic_pipeline/processor.py).                                       *)
(*                                                                         *)
(* Text is a sequence of one-character strings, so that trimming, '$'/','  *)
(* removal, number parsing, the Title Case predicate and e-mail            *)
(* normalisation are computed character by character, as the code and the  *)
(* libraries it calls compute them.  Floats are kept in hundredths.        *)
(***************************************************************************)
EXTENDS Integers, Sequences, FiniteSets, TLC

(* ------------------------------------------------------------------ *)
(* Characters                                                         *)
(* ------------------------------------------------------------------ *)

Space == {" "}
Digits == {"0", "1", "2", "3", "4", "5", "6", "7", "8", "9"}
UpperSeq ==
    <<"A", "B", "C", "D", "E", "F", "G", "H", "I", "J", "K", "L", "M",
      "N", "O", "P", "Q", "R", "S", "T", "U", "V", "W", "X", "Y", "Z">>
LowerSeq ==
    <<"a", "b", "c", "d", "e", "f", "g", "h", "i", "j", "k", "l", "m",
      "n", "o", "p", "q", "r", "s", "t", "u", "v", "w", "x", "y", "z">>
UpperLetters == {UpperSeq[k] : k \in 1..Len(UpperSeq)}
LowerLetters == {LowerSeq[k] : k \in 1..Len(LowerSeq)}

\* position of a letter in its alphabet
Pos(alphabet, c) == CHOOSE k \in 1..Len(alphabet) : alphabet[k] = c

\* str.lower() on one character
LowerOf(c) == IF c \in UpperLetters THEN LowerSeq[Pos(UpperSeq, c)] ELSE c

\* str.upper() on one character
UpperOf(c) == IF c \in LowerLetters THEN UpperSeq[Pos(LowerSeq, c)] ELSE c

DigitVal(c) ==
    CASE c = "0" -> 0 [] c = "1" -> 1 [] c = "2" -> 2 [] c = "3" -> 3
      [] c = "4" -> 4 [] c = "5" -> 5 [] c = "6" -> 6 [] c = "7" -> 7
      [] c = "8" -> 8 [] c = "9" -> 9

(* ------------------------------------------------------------------ *)
(* Text operations of the Python runtime                              *)
(* ------------------------------------------------------------------ *)

RECURSIVE LStrip(_)
LStrip(s) == IF s # <<>> /\ Head(s) \in Space THEN LStrip(Tail(s)) ELSE s

RECURSIVE RStrip(_)
RStrip(s) ==
    IF s # <<>> /\ s[Len(s)] \in Space THEN RStrip(SubSeq(s, 1, Len(s) - 1)) ELSE s

\* str.strip()
Strip(s) == RStrip(LStrip(s))

\* str.replace(c, '')
RECURSIVE Remove(_, _)
Remove(s, c) ==
    IF s = <<>> THEN <<>>
    ELSE IF Head(s) = c THEN Remove(Tail(s), c)
    ELSE <<Head(s)>> \o Remove(Tail(s), c)

\* str.lower()
RECURSIVE Lower(_)
Lower(s) == IF s = <<>> THEN <<>> ELSE <<LowerOf(Head(s))>> \o Lower(Tail(s))

AllIn(s, chars) == \A k \in 1..Len(s) : s[k] \in chars

\* value of a non-empty run of decimal digits
RECURSIVE DigitsVal(_)
DigitsVal(s) ==
    IF s = <<>> THEN 0 ELSE DigitsVal(SubSeq(s, 1, Len(s) - 1)) * 10 + DigitVal(s[Len(s)])

\* index of the first occurrence of c in s, 0 when there is none
RECURSIVE IndexFrom(_, _, _)
IndexFrom(s, c, k) ==
    IF k > Len(s) THEN 0 ELSE IF s[k] = c THEN k ELSE IndexFrom(s, c, k + 1)

IndexOf(s, c) == IndexFrom(s, c, 1)

Count(s, c) == Cardinality({k \in 1..Len(s) : s[k] = c})

\* sign and magnitude part of a trimmed numeric literal
SignOf(t) == IF t # <<>> /\ Head(t) = "-" THEN -1 ELSE 1
Unsigned(t) == IF t # <<>> /\ Head(t) \in {"-", "+"} THEN Tail(t) ELSE t

\* int(s): surrounding whitespace is ignored, an optional sign, then decimal
\* digits; anything else raises ValueError.
IntOk(s) == LET b == Unsigned(Strip(s)) IN b # <<>> /\ AllIn(b, Digits)
IntVal(s) == LET t == Strip(s) IN SignOf(t) * DigitsVal(Unsigned(t))

Inf == [k |-> "float", cls |-> "inf", n |-> 0]
NegInf == [k |-> "float", cls |-> "-inf", n |-> 0]
NaN == [k |-> "float", cls |-> "nan", n |-> 0]
\* a finite float, n in hundredths
Fin(n) == [k |-> "float", cls |-> "fin", n |-> n]

\* the first two fractional digits, in hundredths
Hundredths(f) ==
    IF f = <<>> THEN 0
    ELSE IF Len(f) = 1 THEN DigitVal(f[1]) * 10
    ELSE DigitVal(f[1]) * 10 + DigitVal(f[2])

\* decimal literal: digits, digits '.', digits '.' digits, '.' digits
DecimalOk(b) ==
    LET p == IndexOf(b, ".")
        ip == IF p = 0 THEN b ELSE SubSeq(b, 1, p - 1)
        fp == IF p = 0 THEN <<>> ELSE SubSeq(b, p + 1, Len(b))
    IN  /\ AllIn(ip, Digits)
        /\ AllIn(fp, Digits)
        /\ ip \o fp # <<>>

DecimalVal(b) ==
    LET p == IndexOf(b, ".")
        ip == IF p = 0 THEN b ELSE SubSeq(b, 1, p - 1)
        fp == IF p = 0 THEN <<>> ELSE SubSeq(b, p + 1, Len(b))
    IN  DigitsVal(ip) * 100 + Hundredths(fp)

\* float(s): surrounding whitespace is ignored, an optional sign, then 'inf',
\* 'infinity', 'nan' in any case or a decimal literal; anything else raises
\* ValueError.  (Exponents and digit-group underscores are outside the
\* input alphabet used here.)
FloatOk(s) ==
    LET b == Lower(Unsigned(Strip(s)))
    IN  \/ b \in {<<"i", "n", "f">>, <<"n", "a", "n">>,
                  <<"i", "n", "f", "i", "n", "i", "t", "y">>}
        \/ DecimalOk(b)

FloatVal(s) ==
    LET t == Strip(s)
        b == Lower(Unsigned(t))
    IN  IF b = <<"n", "a", "n">> THEN NaN
        ELSE IF b \in {<<"i", "n", "f">>, <<"i", "n", "f", "i", "n", "i", "t", "y">>}
             THEN (IF SignOf(t) = 1 THEN Inf ELSE NegInf)
        ELSE Fin(SignOf(t) * DecimalVal(b))

\* x > y, x >= y, x <= y on floats, IEEE 754: every comparison with NaN is false
FloatGt(x, y) ==
    /\ x.cls # "nan" /\ y.cls # "nan"
    /\ \/ x.cls = "inf" /\ y.cls # "inf"
       \/ x.cls = "fin" /\ y.cls = "-inf"
       \/ x.cls = "fin" /\ y.cls = "fin" /\ x.n > y.n

FloatGe(x, y) ==
    /\ x.cls # "nan" /\ y.cls # "nan"
    /\ \/ FloatGt(x, y)
       \/ x.cls = y.cls /\ x.n = y.n

FloatLe(x, y) == FloatGe(y, x)

\* str.istitle(): uppercase characters may only follow uncased characters,
\* lowercase characters only cased ones, and there is at least one cased
\* character.
RECURSIVE IsTitleFrom(_, _, _)
IsTitleFrom(s, prevCased, cased) ==
    IF s = <<>> THEN cased
    ELSE IF Head(s) \in UpperLetters
         THEN (~prevCased) /\ IsTitleFrom(Tail(s), TRUE, TRUE)
    ELSE IF Head(s) \in LowerLetters
         THEN prevCased /\ IsTitleFrom(Tail(s), TRUE, TRUE)
    ELSE IsTitleFrom(Tail(s), FALSE, cased)

IsTitle(s) == IsTitleFrom(s, FALSE, FALSE)

(* ------------------------------------------------------------------ *)
(* Values                                                             *)
(* ------------------------------------------------------------------ *)

\* a key that the mapping does not have
Absent == [k |-> "absent"]
\* Python's None
None == [k |-> "none"]
Str(s) == [k |-> "str", s |-> s]
IntV(n) == [k |-> "int", n |-> n]

FieldNames ==
    {"id", "name", "email", "country_code", "industry", "segment",
     "contract_value", "sales_notes", "confidence_score"}

\* Python truthiness of a stored field value
Truthy(v) ==
    CASE v.k = "str" -> v.s # <<>>
      [] v.k = "int" -> v.n # 0
      [] v.k = "float" -> ~(v.cls = "fin" /\ v.n = 0)
      [] OTHER -> FALSE

(* ------------------------------------------------------------------ *)
(* Record Schema: SalesLead                                           *)
(* ------------------------------------------------------------------ *)

Industry ==
    {<<"T", "e", "c", "h">>,
     <<"F", "i", "n", "a", "n", "c", "e">>,
     <<"R", "e", "t", "a", "i", "l">>,
     <<"H", "e", "a", "l", "t", "h", "c", "a", "r", "e">>,
     <<"O", "t", "h", "e", "r">>}

Segment ==
    {<<"E", "n", "t", "e", "r", "p", "r", "i", "s", "e">>,
     <<"M", "i", "d", "-", "M", "a", "r", "k", "e", "t">>,
     <<"S", "M", "B">>}

\* EmailStr: one '@', a non-empty local part of letters, digits and . - +
\* that neither starts nor ends with a dot, and a domain of at least two
\* non-empty dot-separated labels of letters, digits and hyphens.
DomainChars == UpperLetters \cup LowerLetters \cup Digits \cup {"-", "."}
LocalChars == UpperLetters \cup LowerLetters \cup Digits \cup {"-", ".", "+"}

NoEmptyLabel(d) ==
    /\ d # <<>>
    /\ d[1] # "." /\ d[Len(d)] # "."
    /\ \A k \in 1..(Len(d) - 1) : ~(d[k] = "." /\ d[k + 1] = ".")

EmailOk(s) ==
    LET p == IndexOf(s, "@")
        local == SubSeq(s, 1, p - 1)
        domain == SubSeq(s, p + 1, Len(s))
    IN  /\ Count(s, "@") = 1
        /\ AllIn(local, LocalChars) /\ NoEmptyLabel(local)
        /\ AllIn(domain, DomainChars) /\ NoEmptyLabel(domain)
        /\ Count(domain, ".") >= 1

\* the address EmailStr stores: the domain is lowercased, the local part kept
EmailNormalized(s) ==
    LET p == IndexOf(s, "@")
    IN  SubSeq(s, 1, p - 1) \o <<"@">> \o Lower(SubSeq(s, p + 1, Len(s)))

\* id: int = Field(ge=1)
id_errors(v) ==
    IF v.k # "int" THEN {"id:int_type"}
    ELSE IF v.n >= 1 THEN {} ELSE {"id:greater_than_equal"}

id_value(v) == v

\* a name check that accepts only text equal to its str.capitalize() form
validate_title_case_capitalized(s) ==
    /\ s # <<>>
    /\ Head(s) \in UpperLetters
    /\ \A k \in 2..Len(s) : s[k] \notin UpperLetters

\* name: str = Field(min_length=2) with str_strip_whitespace, then the
\* field validator validate_title_case, which runs only when the length
\* check passed.
validate_title_case(s) == IsTitle(s)

name_errors(v) ==
    IF v.k # "str" THEN {"name:string_type"}
    ELSE IF Len(Strip(v.s)) < 2 THEN {"name:string_too_short"}
    ELSE IF ~validate_title_case(Strip(v.s)) THEN {"name:value_error"}
    ELSE {}

name_value(v) == Str(Strip(v.s))

\* email: EmailStr
email_errors(v) ==
    IF v.k # "str" THEN {"email:string_type"}
    ELSE IF ~EmailOk(Strip(v.s)) THEN {"email:value_error"}
    ELSE {}

email_value(v) == Str(EmailNormalized(Strip(v.s)))

\* country_code: Optional[str] = Field(default=None, pattern="^[A-Z]{2}$")
country_code_errors(v) ==
    IF v.k \in {"absent", "none"} THEN {}
    ELSE IF v.k # "str" THEN {"country_code:string_type"}
    ELSE IF Len(Strip(v.s)) = 2 /\ AllIn(Strip(v.s), UpperLetters) THEN {}
    ELSE {"country_code:string_pattern_mismatch"}

country_code_value(v) == IF v.k = "str" THEN Str(Strip(v.s)) ELSE None

\* industry: Optional[Industry]
industry_errors(v) ==
    IF v.k \in {"absent", "none"} THEN {}
    ELSE IF v.k = "str" /\ v.s \in Industry THEN {}
    ELSE {"industry:enum"}

industry_value(v) == IF v.k = "str" THEN v ELSE None

\* segment: Optional[Segment]
segment_errors(v) ==
    IF v.k \in {"absent", "none"} THEN {}
    ELSE IF v.k = "str" /\ v.s \in Segment THEN {}
    ELSE {"segment:enum"}

segment_value(v) == IF v.k = "str" THEN v ELSE None

\* contract_value without the gt=0.0 constraint
contract_value_errors_no_gt(v) ==
    IF v.k \in {"absent", "none"} THEN {}
    ELSE IF v.k # "float" THEN {"contract_value:float_type"}
    ELSE {}

\* contract_value: Optional[float] = Field(default=None, gt=0.0)
contract_value_errors(v) ==
    IF v.k \in {"absent", "none"} THEN {}
    ELSE IF v.k # "float" THEN {"contract_value:float_type"}
    ELSE IF FloatGt(v, Fin(0)) THEN {}
    ELSE {"contract_value:greater_than"}

contract_value_value(v) == IF v.k = "float" THEN v ELSE None

\* sales_notes: Optional[str] = Field(default=None)
sales_notes_errors(v) ==
    IF v.k \in {"absent", "none", "str"} THEN {} ELSE {"sales_notes:string_type"}

sales_notes_value(v) == IF v.k = "str" THEN Str(Strip(v.s)) ELSE None

\* a confidence_score without the lower bound
confidence_score_errors_no_ge(v) ==
    IF v.k = "absent" THEN {}
    ELSE IF v.k # "float" THEN {"confidence_score:float_type"}
    ELSE IF ~FloatLe(v, Fin(100)) THEN {"confidence_score:less_than_equal"}
    ELSE {}

\* confidence_score: float = Field(default=1.0, ge=0.0, le=1.0); the float
\* validator tests le, then ge, and stops at the first bound that fails
confidence_score_errors(v) ==
    IF v.k = "absent" THEN {}
    ELSE IF v.k # "float" THEN {"confidence_score:float_type"}
    ELSE IF ~FloatLe(v, Fin(100)) THEN {"confidence_score:less_than_equal"}
    ELSE IF ~FloatGe(v, Fin(0)) THEN {"confidence_score:greater_than_equal"}
    ELSE {}

confidence_score_value(v) == IF v.k = "float" THEN v ELSE Fin(100)

\* field_errors that stops at the first field with a violation
field_errors_first_only(m) ==
    IF id_errors(m.id) # {} THEN id_errors(m.id)
    ELSE IF name_errors(m.name) # {} THEN name_errors(m.name)
    ELSE IF email_errors(m.email) # {} THEN email_errors(m.email)
    ELSE IF country_code_errors(m.country_code) # {}
         THEN country_code_errors(m.country_code)
    ELSE IF industry_errors(m.industry) # {} THEN industry_errors(m.industry)
    ELSE IF segment_errors(m.segment) # {} THEN segment_errors(m.segment)
    ELSE IF contract_value_errors(m.contract_value) # {}
         THEN contract_value_errors(m.contract_value)
    ELSE IF sales_notes_errors(m.sales_notes) # {}
         THEN sales_notes_errors(m.sales_notes)
    ELSE confidence_score_errors(m.confidence_score)

\* the violations of the field constraints, all fields checked
field_errors(m) ==
    id_errors(m.id) \cup name_errors(m.name) \cup email_errors(m.email)
    \cup country_code_errors(m.country_code) \cup industry_errors(m.industry)
    \cup segment_errors(m.segment) \cup contract_value_errors(m.contract_value)
    \cup sales_notes_errors(m.sales_notes)
    \cup confidence_score_errors(m.confidence_score)

\* build_lead with the segment not carried over
build_lead_segment_dropped(m) ==
    [id |-> id_value(m.id),
     name |-> name_value(m.name),
     email |-> email_value(m.email),
     country_code |-> country_code_value(m.country_code),
     industry |-> industry_value(m.industry),
     segment |-> None,
     contract_value |-> contract_value_value(m.contract_value),
     sales_notes |-> sales_notes_value(m.sales_notes),
     confidence_score |-> confidence_score_value(m.confidence_score)]

\* the instance built from a mapping whose fields all validate
build_lead(m) ==
    [id |-> id_value(m.id),
     name |-> name_value(m.name),
     email |-> email_value(m.email),
     country_code |-> country_code_value(m.country_code),
     industry |-> industry_value(m.industry),
     segment |-> segment_value(m.segment),
     contract_value |-> contract_value_value(m.contract_value),
     sales_notes |-> sales_notes_value(m.sales_notes),
     confidence_score |-> confidence_score_value(m.confidence_score)]

\* model_post_init that objects only when all three extracted fields are missing
model_post_init_all_missing(lead) ==
    IF /\ Truthy(lead.sales_notes)
       /\ Strip(lead.sales_notes.s) # <<>>
       /\ (~Truthy(lead.country_code) /\ ~Truthy(lead.industry)
           /\ ~Truthy(lead.contract_value))
    THEN {"model:value_error"}
    ELSE {}

\* model_post_init that asks for segment as well
model_post_init_with_segment(lead) ==
    IF /\ Truthy(lead.sales_notes)
       /\ Strip(lead.sales_notes.s) # <<>>
       /\ (~Truthy(lead.country_code) \/ ~Truthy(lead.industry)
           \/ ~Truthy(lead.segment) \/ ~Truthy(lead.contract_value))
    THEN {"model:value_error"}
    ELSE {}

\* model_post_init: notes without the extracted fields raise ValueError,
\* which the validator reports as one more validation error
model_post_init(lead) ==
    IF /\ Truthy(lead.sales_notes)
       /\ Strip(lead.sales_notes.s) # <<>>
       /\ (~Truthy(lead.country_code) \/ ~Truthy(lead.industry)
           \/ ~Truthy(lead.contract_value))
    THEN {"model:value_error"}
    ELSE {}

\* SalesLead.model_validate(m): the errors of the ValidationError it raises,
\* empty when it returns.  model_post_init runs only on an instance whose
\* fields all validated.
validation_errors(m) ==
    IF field_errors(m) # {} THEN field_errors(m) ELSE model_post_init(build_lead(m))

model_validate_ok(m) == validation_errors(m) = {}

\* lead.model_dump(): the dict of every field of the instance, defaults
\* included
model_dump(lead) == [f \in FieldNames |-> lead[f]]

(* ------------------------------------------------------------------ *)
(* Row Normalizer: DataProcessor._prepare_row                         *)
(* ------------------------------------------------------------------ *)

\* row.get(key) alone, without the strip() test
Present_no_strip(v) == v.k = "str" /\ v.s # <<>>

\* row.get(key) and row[key].strip()
Present(v) == v.k = "str" /\ v.s # <<>> /\ Strip(v.s) # <<>>

\* row['contract_value'].replace('$', '').replace(',', '')
contract_value_str(v) == Remove(Remove(v.s, "$"), ",")

\* the exception _prepare_row raises, "" when it returns; the statements are
\* evaluated in source order and the first failure wins
prepare_row_error(row) ==
    IF row.id.k = "absent" THEN "KeyError:id"
    ELSE IF row.id.k = "none" THEN "TypeError:id"
    ELSE IF ~IntOk(row.id.s) THEN "ValueError:id"
    ELSE IF row.name.k = "absent" THEN "KeyError:name"
    ELSE IF row.email.k = "absent" THEN "KeyError:email"
    ELSE IF Present(row.contract_value)
            /\ ~FloatOk(contract_value_str(row.contract_value))
         THEN "ValueError:contract_value"
    ELSE IF Present(row.confidence_score) /\ ~FloatOk(row.confidence_score.s)
         THEN "ValueError:confidence_score"
    ELSE ""

\* the mapping _prepare_row returns
prepare_row(row) ==
    [id |-> IntV(IntVal(row.id.s)),
     name |-> row.name,
     email |-> row.email,
     country_code |-> IF Present(row.country_code) THEN row.country_code ELSE Absent,
     industry |-> IF Present(row.industry) THEN row.industry ELSE Absent,
     segment |-> IF Present(row.segment) THEN row.segment ELSE Absent,
     contract_value |->
         IF Present(row.contract_value)
         THEN FloatVal(contract_value_str(row.contract_value))
         ELSE Absent,
     sales_notes |-> IF Present(row.sales_notes) THEN row.sales_notes ELSE Absent,
     confidence_score |->
         IF Present(row.confidence_score)
         THEN FloatVal(row.confidence_score.s)
         ELSE Absent]

(* ------------------------------------------------------------------ *)
(* Input rows, as csv.DictReader delivers them: every value is text,   *)
(* None where the line is shorter than the header, and a key is absent *)
(* when the header lacks the column.                                   *)
(* ------------------------------------------------------------------ *)

\* the raw values each column takes in the inputs explored
RawValues ==
    [id |->
        {Str(<<"7">>),
         Str(<<"0">>),
         Str(<<" ", "2">>),
         Str(<<"x">>),
         None,
         Absent},
     name |->
        {Str(<<"A", "l">>),
         Str(<<"a", "l">>),
         Str(<<"a">>),
         Str(<<>>),
         Str(<<" ", "A", "l">>),
         Str(<<"a", "l", " ", "x", "u">>),
         Str(<<"1", "2">>),
         None},
     email |->
        {Str(<<"a", "@", "x", ".", "e", "u">>),
         Str(<<"a", "@", "X", ".", "E", "U">>),
         Str(<<"a", "x">>),
         Absent},
     country_code |->
        {Str(<<"U", "S">>),
         Str(<<"u", "s">>),
         Str(<<" ", "U", "S">>),
         Str(<<>>),
         Str(<<" ">>)},
     industry |->
        {Str(<<"T", "e", "c", "h">>),
         Str(<<"t", "e", "c", "h">>),
         Str(<<>>)},
     segment |->
        {Str(<<"S", "M", "B">>),
         Str(<<"s", "m", "b">>),
         Str(<<>>),
         None},
     contract_value |->
        {Str(<<"5", "0">>),
         Str(<<"$", "1", ",", "0", "0", "0", ".", "5", "0">>),
         Str(<<"-", "5">>),
         Str(<<"0">>),
         Str(<<"x">>),
         Str(<<"$">>),
         Str(<<"i", "n", "f">>),
         Str(<<"n", "a", "n">>),
         Str(<<>>),
         Str(<<" ">>)},
     sales_notes |->
        {Str(<<"h", "i">>),
         Str(<<>>),
         Str(<<" ">>)},
     confidence_score |->
        {Str(<<>>),
         Str(<<"0", ".", "5">>),
         Str(<<"0">>),
         Str(<<"1", ".", "5">>),
         Str(<<"x">>),
         Str(<<"n", "a", "n">>)}]

\* a complete clean row without notes
CleanRow ==
    [id |-> Str(<<"7">>),
     name |-> Str(<<"A", "l">>),
     email |-> Str(<<"a", "@", "x", ".", "e", "u">>),
     country_code |-> Str(<<"U", "S">>),
     industry |-> Str(<<"T", "e", "c", "h">>),
     segment |-> Str(<<"S", "M", "B">>),
     contract_value |-> Str(<<"5", "0">>),
     sales_notes |-> Str(<<>>),
     confidence_score |-> Str(<<>>)]

\* a complete row that carries notes and a confidence score
NotesRow ==
    [CleanRow EXCEPT !.sales_notes = Str(<<"h", "i">>), !.confidence_score = Str(<<"0", ".", "5">>)]

\* the rows that differ from r in at most one column
OneOff(r) == UNION {{[r EXCEPT ![f] = v] : v \in RawValues[f]} : f \in FieldNames}

\* single-row inputs: every row within two columns of CleanRow or NotesRow
InputRows == UNION {OneOff(r) : r \in OneOff(CleanRow) \cup OneOff(NotesRow)}

\* rows of the multi-row inputs: valid, repairable, and failing normalisation
SampleRows ==
    {CleanRow,
     NotesRow,
     [CleanRow EXCEPT !.name = Str(<<"a", "l">>)],
     [NotesRow EXCEPT !.country_code = Str(<<>>)],
     [CleanRow EXCEPT !.contract_value = Str(<<"-", "5">>)],
     [CleanRow EXCEPT !.id = Str(<<"x">>)]}

\* longest multi-row input
MaxRows == 2

RECURSIVE SeqsUpTo(_, _)
SeqsUpTo(n, S) ==
    IF n = 0 THEN {<<>>}
    ELSE LET shorter == SeqsUpTo(n - 1, S)
         IN  shorter \cup {Append(q, x) : q \in {p \in shorter : Len(p) = n - 1}, x \in S}

RowLists == SeqsUpTo(MaxRows, SampleRows) \cup {<<r>> : r \in InputRows}

\* a mapping as the repair collaborator's language model may produce it;
\* the ones used here differ in the fields the collaborator may fill and in
\* confidence_score
RepairedLead(cc, conf) ==
    [id |-> IntV(7),
     name |-> Str(<<"A", "l">>),
     email |-> Str(<<"a", "@", "x", ".", "e", "u">>),
     country_code |-> cc,
     industry |-> Str(<<"T", "e", "c", "h">>),
     segment |-> None,
     contract_value |-> Fin(5000),
     sales_notes |-> None,
     confidence_score |-> conf]

\* the structured output the language model may hand to the agent, before
\* the agent validates it: three mappings that conform to SalesLead and four
\* that do not (notes without country_code, a confidence_score above 1 and
\* one below 0, a name that is not Title Case)
ModelOutputs ==
    {RepairedLead(Str(<<"U", "S">>), Fin(100)),
     RepairedLead(Str(<<"F", "R">>), Fin(50)),
     RepairedLead(None, Fin(0)),
     [RepairedLead(None, Fin(100)) EXCEPT !.sales_notes = Str(<<"h", "i">>)],
     RepairedLead(Str(<<"U", "S">>), Fin(150)),
     RepairedLead(Str(<<"U", "S">>), Fin(0 - 50)),
     [RepairedLead(Str(<<"U", "S">>), Fin(100)) EXCEPT !.name = Str(<<"a", "l">>)]}

\* an agent that takes whatever the language model produced
output_type_accepts_anything(output) == TRUE

\* Agent(..., output_type=SalesLead): the agent validates the model's output
\* against SalesLead and returns it only when it conforms
output_type_accepts(output) == model_validate_ok(output)

\* what repair_lead may return: result.output, a SalesLead instance
RepairOutputs ==
    {build_lead(output) : output \in {o \in ModelOutputs : output_type_accepts(o)}}

\* what the repair call may raise (subclasses of Exception)
RepairErrors == {"UnexpectedModelBehavior"}

\* constructor arguments explored
MinConfidences == {Fin(0), Fin(50), Fin(100)}
Delays == {Fin(0), Fin(100), Fin(0 - 100)}

\* a file of the output directory, or its absence
NoFile == [exists |-> FALSE, content |-> <<>>]
File(content) == [exists |-> TRUE, content |-> content]

FileNames == {"valid", "repaired", "failed", "low_confidence"}

\* an output directory without any of the four result files
EmptyDir == [name \in FileNames |-> NoFile]

(* ------------------------------------------------------------------ *)
(* Pipeline Controller: DataProcessor                                  *)
(* ------------------------------------------------------------------ *)

VARIABLES
    rows,                   \* the rows read from the input file
    min_confidence,         \* self.min_confidence
    delay_between_repairs,  \* self.delay_between_repairs
    valid_leads,            \* self.valid_leads
    repaired_leads,         \* self.repaired_leads
    low_confidence_leads,   \* self.low_confidence_leads
    failed_leads,           \* self.failed_leads
    i,                      \* position of the for loop in rows, from 1
    pc,                     \* statement process_csv is at
    typed_row,              \* local typed_row
    validation_error,       \* local validation_error
    hist,                   \* history: the calls made so far, for the properties
    output_dir,             \* the files of the output directory
    size,                   \* generate: the --size option
    leads,                  \* generate_sample_data: local leads
    csv_file                \* generate_sample_data: the file at output_path

vars ==
    <<rows, min_confidence, delay_between_repairs, valid_leads, repaired_leads,
      low_confidence_leads, failed_leads, i, pc, typed_row, validation_error, hist,
      output_dir, size, leads, csv_file>>

\* what process_csv leaves alone: the output directory and the state of the
\* generate command
files == <<output_dir, size, leads, csv_file>>
generated == <<size, leads, csv_file>>

config == <<rows, min_confidence, delay_between_repairs>>
buckets == <<valid_leads, repaired_leads, low_confidence_leads, failed_leads>>

\* time.sleep(d) raises ValueError for a negative length
time_sleep_raises(d) == FloatGt(Fin(0), d)

\* __init__ followed by the read of the input file in process_csv.  Every
\* bucket entry carries idx, the position of its row in the input, which
\* the program does not store.
Started ==
    /\ min_confidence \in MinConfidences
    /\ delay_between_repairs \in Delays
    /\ valid_leads = <<>>
    /\ repaired_leads = <<>>
    /\ low_confidence_leads = <<>>
    /\ failed_leads = <<>>
    /\ i = 1
    /\ pc = IF rows = <<>> THEN "done" ELSE "prepare"
    /\ typed_row = None
    /\ validation_error = {}
    /\ hist = <<>>
    /\ size = 0
    /\ leads = <<>>
    /\ csv_file = NoFile

Constructed == rows \in RowLists /\ Started

\* a run that starts with an output directory that holds no file yet
Init == Constructed /\ output_dir = EmptyDir

\* a break in place of the move to the next row
next_row_break ==
    /\ i' = i + 1
    /\ pc' = "done"

\* the for loop moves to the next row, or ends
next_row ==
    /\ i' = i + 1
    /\ pc' = IF i = Len(rows) THEN "done" ELSE "prepare"

\* Prepare that puts the failure entry in front of the earlier ones
Prepare_prepend ==
    /\ pc = "prepare"
    /\ hist' = Append(hist, [op |-> "prepare", row |-> i])
    /\ IF prepare_row_error(rows[i]) # ""
       THEN /\ failed_leads' =
                   <<[idx |-> i, row |-> rows[i], stage |-> "preprocessing",
                      error |-> prepare_row_error(rows[i])]>> \o failed_leads
            /\ next_row
            /\ UNCHANGED typed_row
       ELSE /\ typed_row' = prepare_row(rows[i])
            /\ pc' = "validate"
            /\ UNCHANGED <<failed_leads, i>>
    /\ UNCHANGED <<config, files, valid_leads, repaired_leads, low_confidence_leads,
                   validation_error>>

\* try: typed_row = self._prepare_row(row)  except Exception: ... continue
Prepare ==
    /\ pc = "prepare"
    /\ hist' = Append(hist, [op |-> "prepare", row |-> i])
    /\ IF prepare_row_error(rows[i]) # ""
       THEN /\ failed_leads' =
                   Append(failed_leads,
                          [idx |-> i, row |-> rows[i], stage |-> "preprocessing",
                           error |-> prepare_row_error(rows[i])])
            /\ next_row
            /\ UNCHANGED typed_row
       ELSE /\ typed_row' = prepare_row(rows[i])
            /\ pc' = "validate"
            /\ UNCHANGED <<failed_leads, i>>
    /\ UNCHANGED <<config, files, valid_leads, repaired_leads, low_confidence_leads,
                   validation_error>>

\* Validate that applies the threshold to a row that validates as well
Validate_with_threshold ==
    /\ pc = "validate"
    /\ hist' = Append(hist, [op |-> "validate", row |-> i])
    /\ IF model_validate_ok(typed_row)
       THEN /\ IF FloatGe(build_lead(typed_row).confidence_score, min_confidence)
               THEN /\ valid_leads' =
                           Append(valid_leads,
                                  [idx |-> i, lead |-> model_dump(build_lead(typed_row))])
                    /\ UNCHANGED low_confidence_leads
               ELSE /\ low_confidence_leads' =
                           Append(low_confidence_leads,
                                  [idx |-> i, original |-> rows[i],
                                   repaired |-> model_dump(build_lead(typed_row)),
                                   error_fixed |-> {}])
                    /\ UNCHANGED valid_leads
            /\ next_row
            /\ UNCHANGED validation_error
       ELSE /\ validation_error' = validation_errors(typed_row)
            /\ pc' = "repair"
            /\ UNCHANGED <<valid_leads, low_confidence_leads, i>>
    /\ UNCHANGED <<config, files, repaired_leads, failed_leads, typed_row>>

\* Validate that keeps the validation error of an earlier row once there is one
Validate_keeps_first_error ==
    /\ pc = "validate"
    /\ hist' = Append(hist, [op |-> "validate", row |-> i])
    /\ IF model_validate_ok(typed_row)
       THEN /\ valid_leads' =
                   Append(valid_leads,
                          [idx |-> i, lead |-> model_dump(build_lead(typed_row))])
            /\ next_row
            /\ UNCHANGED validation_error
       ELSE /\ validation_error' =
                   IF validation_error # {} THEN validation_error
                   ELSE validation_errors(typed_row)
            /\ pc' = "repair"
            /\ UNCHANGED <<valid_leads, i>>
    /\ UNCHANGED <<config, files, repaired_leads, low_confidence_leads,
                   failed_leads, typed_row>>

\* Validate without the continue after the append to valid_leads
Validate_no_continue ==
    /\ pc = "validate"
    /\ hist' = Append(hist, [op |-> "validate", row |-> i])
    /\ IF model_validate_ok(typed_row)
       THEN /\ valid_leads' =
                   Append(valid_leads,
                          [idx |-> i, lead |-> model_dump(build_lead(typed_row))])
            /\ pc' = "repair"
            /\ UNCHANGED <<validation_error, i>>
       ELSE /\ validation_error' = validation_errors(typed_row)
            /\ pc' = "repair"
            /\ UNCHANGED <<valid_leads, i>>
    /\ UNCHANGED <<config, files, repaired_leads, low_confidence_leads, failed_leads,
                   typed_row>>

\* try: lead = SalesLead.model_validate(typed_row); append; continue
\* except ValidationError as e: validation_error = str(e)
Validate ==
    /\ pc = "validate"
    /\ hist' = Append(hist, [op |-> "validate", row |-> i])
    /\ IF model_validate_ok(typed_row)
       THEN /\ valid_leads' =
                   Append(valid_leads,
                          [idx |-> i, lead |-> model_dump(build_lead(typed_row))])
            /\ next_row
            /\ UNCHANGED validation_error
       ELSE /\ validation_error' = validation_errors(typed_row)
            /\ pc' = "repair"
            /\ UNCHANGED <<valid_leads, i>>
    /\ UNCHANGED <<config, files, repaired_leads, low_confidence_leads, failed_leads,
                   typed_row>>

\* the failure entry without the validation error
repair_failure_no_validation_error(error) ==
    [idx |-> i, row |-> rows[i], stage |-> "repair",
     validation_error |-> {}, repair_error |-> error]

\* the entry for a failure in the repair block
repair_failure(error) ==
    [idx |-> i, row |-> rows[i], stage |-> "repair",
     validation_error |-> validation_error, repair_error |-> error]

\* confidence > self.min_confidence
meets_threshold_strict(confidence) == FloatGt(confidence, min_confidence)

\* confidence >= self.min_confidence
meets_threshold(confidence) == FloatGe(confidence, min_confidence)

\* RepairReturns that keeps the normalized row, not the row as read
RepairReturns_keeps_typed_row(repaired_lead) ==
    LET repaired_data == model_dump(repaired_lead)
        confidence == repaired_data.confidence_score
        record == [idx |-> i, original |-> typed_row, repaired |-> repaired_data,
                   error_fixed |-> validation_error]
    IN  /\ hist' = Append(hist, [op |-> "repair", row |-> i, arg |-> typed_row,
                                 error |-> validation_error, returned |-> TRUE,
                                 out |-> repaired_data])
        /\ IF meets_threshold(confidence)
           THEN /\ repaired_leads' = Append(repaired_leads, record)
                /\ UNCHANGED low_confidence_leads
           ELSE /\ low_confidence_leads' = Append(low_confidence_leads, record)
                /\ UNCHANGED repaired_leads
        /\ pc' = "sleep_in_try"
        /\ UNCHANGED failed_leads

\* repair_lead(typed_row, validation_error) returns repaired_lead: the record
\* goes to repaired_leads or low_confidence_leads
RepairReturns(repaired_lead) ==
    LET repaired_data == model_dump(repaired_lead)
        confidence == repaired_data.confidence_score
        record == [idx |-> i, original |-> rows[i], repaired |-> repaired_data,
                   error_fixed |-> validation_error]
    IN  /\ hist' = Append(hist, [op |-> "repair", row |-> i, arg |-> typed_row,
                                 error |-> validation_error, returned |-> TRUE,
                                 out |-> repaired_data])
        /\ IF meets_threshold(confidence)
           THEN /\ repaired_leads' = Append(repaired_leads, record)
                /\ UNCHANGED low_confidence_leads
           ELSE /\ low_confidence_leads' = Append(low_confidence_leads, record)
                /\ UNCHANGED repaired_leads
        /\ pc' = "sleep_in_try"
        /\ UNCHANGED failed_leads

\* repair_lead raises: except Exception appends the failure
RepairRaises(error) ==
    /\ hist' = Append(hist, [op |-> "repair", row |-> i, arg |-> typed_row,
                             error |-> validation_error, returned |-> FALSE,
                             out |-> error])
    /\ failed_leads' = Append(failed_leads, repair_failure(error))
    /\ pc' = "sleep_in_except"
    /\ UNCHANGED <<repaired_leads, low_confidence_leads>>

\* Pass 2: the call of the repair collaborator and what follows it up to the
\* pacing delay
Repair ==
    /\ pc = "repair"
    /\ \/ \E repaired_lead \in RepairOutputs : RepairReturns(repaired_lead)
       \/ \E error \in RepairErrors : RepairRaises(error)
    /\ UNCHANGED <<config, files, valid_leads, i, typed_row, validation_error>>

\* time.sleep(self.delay_between_repairs) inside the try block: what it
\* raises is caught by the same except Exception
SleepInTry ==
    /\ pc = "sleep_in_try"
    /\ hist' = Append(hist, [op |-> "sleep", row |-> i,
                             secs |-> delay_between_repairs,
                             completed |-> ~time_sleep_raises(delay_between_repairs)])
    /\ IF time_sleep_raises(delay_between_repairs)
       THEN /\ failed_leads' = Append(failed_leads, repair_failure("ValueError:sleep"))
            /\ pc' = "sleep_in_except"
            /\ UNCHANGED i
       ELSE /\ next_row
            /\ UNCHANGED failed_leads
    /\ UNCHANGED <<config, files, valid_leads, repaired_leads, low_confidence_leads,
                   typed_row, validation_error>>

\* time.sleep(self.delay_between_repairs) inside the except block: what it
\* raises leaves process_csv
SleepInExcept ==
    /\ pc = "sleep_in_except"
    /\ hist' = Append(hist, [op |-> "sleep", row |-> i,
                             secs |-> delay_between_repairs,
                             completed |-> ~time_sleep_raises(delay_between_repairs)])
    /\ IF time_sleep_raises(delay_between_repairs)
       THEN /\ pc' = "raised"
            /\ UNCHANGED i
       ELSE next_row
    /\ UNCHANGED <<config, files, buckets, typed_row, validation_error>>

Next == Prepare \/ Validate \/ Repair \/ SleepInTry \/ SleepInExcept

Spec == Init /\ [][Next]_vars

(* ------------------------------------------------------------------ *)
(* Vocabulary of the properties                                       *)
(* ------------------------------------------------------------------ *)

RowIds == 1..Len(rows)

\* number of entries of a bucket that belong to row k
EntriesOf(bucket, k) == Cardinality({j \in 1..Len(bucket) : bucket[j].idx = k})

EntriesOfRow(k) ==
    EntriesOf(valid_leads, k) + EntriesOf(repaired_leads, k)
    + EntriesOf(low_confidence_leads, k) + EntriesOf(failed_leads, k)

\* the calls of one kind made for row k
Calls(kind, k) == {j \in 1..Len(hist) : hist[j].op = kind /\ hist[j].row = k}

\* process_csv has returned or raised
Finished == pc \in {"done", "raised"}

\* row k has been taken through the loop body as far as its bucket entry
Handled(k) == k < i \/ (k = i /\ pc \in {"sleep_in_try", "sleep_in_except", "raised"})

Normalizes(row) == prepare_row_error(row) = ""

\* the row normalizes and then fails schema validation
NeedsRepair(row) == Normalizes(row) /\ ~model_validate_ok(prepare_row(row))

(* ------------------------------------------------------------------ *)
(* C1..C10                                                            *)
(* ------------------------------------------------------------------ *)

\* C1: when process_csv has finished, every input row has exactly one entry
\* across the four buckets (so no row is in two buckets, none is missing and
\* the four lengths sum to the number of rows), whatever min_confidence and
\* delay_between_repairs are and whatever each repair call returned or raised.
C1_ExactlyOneBucket == Finished => \A k \in RowIds : EntriesOfRow(k) = 1

\* C2: repair_lead is never called twice for a row; for a row that has been
\* handled it was called once if the row normalizes and then fails schema
\* validation and not at all otherwise.
C2_OneRepairCall ==
    \A k \in RowIds :
        /\ Cardinality(Calls("repair", k)) <= 1
        /\ Handled(k) =>
               Cardinality(Calls("repair", k)) = IF NeedsRepair(rows[k]) THEN 1 ELSE 0

C2_Witness ==
    /\ pc = "done" /\ Len(rows) = 2
    /\ Cardinality(Calls("repair", 1)) = 1
    /\ Cardinality(Calls("repair", 2)) = 0

\* C3: for every repair call that returned a record, the row has an entry in
\* repaired_leads exactly when the record's confidence_score >= min_confidence
\* and an entry in low_confidence_leads exactly when it is below; a score
\* equal to min_confidence goes to repaired_leads.
C3_ConfidenceRouting ==
    \A j \in 1..Len(hist) :
        (hist[j].op = "repair" /\ hist[j].returned) =>
            LET k == hist[j].row
                above == \/ hist[j].out.confidence_score.n > min_confidence.n
                         \/ hist[j].out.confidence_score.n = min_confidence.n
            IN  /\ EntriesOf(repaired_leads, k) = IF above THEN 1 ELSE 0
                /\ EntriesOf(low_confidence_leads, k) = IF above THEN 0 ELSE 1
                /\ \A e \in 1..Len(repaired_leads) :
                       repaired_leads[e].idx = k => repaired_leads[e].repaired = hist[j].out
                /\ \A e \in 1..Len(low_confidence_leads) :
                       low_confidence_leads[e].idx = k =>
                           low_confidence_leads[e].repaired = hist[j].out

\* a repaired score equal to the threshold, above 0, stored as Repaired
C3_Witness ==
    /\ min_confidence = Fin(50)
    /\ \E e \in 1..Len(repaired_leads) :
           repaired_leads[e].repaired.confidence_score = Fin(50)
    /\ low_confidence_leads = <<>>

\* C4: whenever the repair call for a row raised, the row has exactly one
\* failed_leads entry, of stage 'repair', carrying the validation error of
\* that row and the text of the repair error, and no entry in Valid,
\* Repaired or LowConfidence.
C4_RepairFailure ==
    \A j \in 1..Len(hist) :
        (hist[j].op = "repair" /\ ~hist[j].returned) =>
            LET k == hist[j].row
            IN  /\ EntriesOf(failed_leads, k) = 1
                /\ \A e \in 1..Len(failed_leads) :
                       failed_leads[e].idx = k =>
                           /\ failed_leads[e].stage = "repair"
                           /\ failed_leads[e].row = rows[k]
                           /\ failed_leads[e].validation_error # {}
                           /\ failed_leads[e].validation_error
                                  = validation_errors(prepare_row(rows[k]))
                           /\ failed_leads[e].repair_error = hist[j].out
                /\ EntriesOf(valid_leads, k) = 0
                /\ EntriesOf(repaired_leads, k) = 0
                /\ EntriesOf(low_confidence_leads, k) = 0

C4_Witness ==
    /\ pc = "done"
    /\ \E j \in 1..Len(hist) : hist[j].op = "repair" /\ ~hist[j].returned

\* C5: a row for which _prepare_row raises gets one failed_leads entry of
\* stage 'preprocessing' and no other entry; the call after its
\* normalisation is the normalisation of the next row (neither validation
\* nor repair runs for it), or the run is over when it was the last row.
C5_PreprocessingFailure ==
    \A j \in 1..Len(hist) :
        (hist[j].op = "prepare" /\ ~Normalizes(rows[hist[j].row])) =>
            LET k == hist[j].row
            IN  /\ EntriesOfRow(k) = 1
                /\ \E e \in 1..Len(failed_leads) :
                       /\ failed_leads[e].idx = k
                       /\ failed_leads[e].stage = "preprocessing"
                       /\ failed_leads[e].row = rows[k]
                /\ Calls("validate", k) = {} /\ Calls("repair", k) = {}
                /\ IF j < Len(hist)
                   THEN hist[j + 1].op = "prepare" /\ hist[j + 1].row = k + 1
                   ELSE \/ pc = "prepare" /\ i = k + 1 /\ k < Len(rows)
                        \/ pc = "done" /\ k = Len(rows)

\* a failing row followed by a row that was then processed
C5_Witness ==
    /\ pc = "done" /\ Len(rows) = 2
    /\ ~Normalizes(rows[1])
    /\ Calls("prepare", 2) # {}
    /\ EntriesOfRow(2) = 1

\* what Valid stores for the field f of a normalized mapping m when nothing
\* is altered: the value itself, and the schema default for a key m lacks
Unaltered(m, f) ==
    IF m[f] # Absent THEN m[f]
    ELSE IF f = "confidence_score" THEN Fin(100) ELSE None

\* C6 as stated: a row whose normalized mapping satisfies the schema has one
\* entry, in valid_leads, and every field of that entry is identical to the
\* normalized input value.
C6_IdenticalValues ==
    \A k \in RowIds :
        (Handled(k) /\ Normalizes(rows[k]) /\ model_validate_ok(prepare_row(rows[k]))) =>
            /\ EntriesOf(valid_leads, k) = 1 /\ EntriesOfRow(k) = 1
            /\ \A e \in 1..Len(valid_leads) :
                   valid_leads[e].idx = k =>
                       \A f \in FieldNames :
                           valid_leads[e].lead[f] = Unaltered(prepare_row(rows[k]), f)

\* what Valid stores for a text field: the value without its surrounding
\* whitespace, and for email with the domain in lower case
Trimmed(m, f) ==
    IF m[f] = Absent THEN None
    ELSE IF f = "email" THEN Str(EmailNormalized(Strip(m[f].s)))
    ELSE Str(Strip(m[f].s))

TrimmedFields == {"name", "email", "country_code", "sales_notes"}

\* C6 as amended: a row whose normalized mapping satisfies the schema has one
\* entry, in valid_leads; its fields equal the normalized input values except
\* that name, email, country_code and sales_notes are stored without their
\* surrounding whitespace and email with its domain in lower case; a key the
\* mapping lacks is stored as None (confidence_score as 1.0).
C6_PassThroughTrimmed ==
    \A k \in RowIds :
        (Handled(k) /\ Normalizes(rows[k]) /\ model_validate_ok(prepare_row(rows[k]))) =>
            /\ EntriesOf(valid_leads, k) = 1 /\ EntriesOfRow(k) = 1
            /\ \A e \in 1..Len(valid_leads) :
                   valid_leads[e].idx = k =>
                       \A f \in FieldNames :
                           valid_leads[e].lead[f] =
                               IF f \in TrimmedFields
                               THEN Trimmed(prepare_row(rows[k]), f)
                               ELSE Unaltered(prepare_row(rows[k]), f)

\* a valid row with a padded country code, stored trimmed
C6_Witness ==
    /\ pc = "done"
    /\ \E e \in 1..Len(valid_leads) :
           /\ rows[valid_leads[e].idx].country_code = Str(<<" ", "U", "S">>)
           /\ valid_leads[e].lead.country_code = Str(<<"U", "S">>)
           /\ valid_leads[e].lead.segment = Str(<<"S", "M", "B">>)

\* the raw value has a character that is not whitespace
NonBlank(v) == v.k = "str" /\ \E c \in 1..Len(v.s) : v.s[c] \notin Space

\* id, name and email of the raw row satisfy their field constraints
RequiredFieldsValid(row) ==
    /\ row.id.k = "str" /\ IntOk(row.id.s) /\ IntVal(row.id.s) >= 1
    /\ row.name.k = "str" /\ name_errors(row.name) = {}
    /\ row.email.k = "str" /\ email_errors(row.email) = {}

\* notes without one of the fields to extract
NotesWithoutExtraction(row) ==
    /\ NonBlank(row.sales_notes)
    /\ \/ ~NonBlank(row.country_code)
       \/ ~NonBlank(row.industry)
       \/ ~NonBlank(row.contract_value)

\* C7 as stated: every row with non-blank sales_notes that lacks country_code,
\* industry or contract_value and has a valid id, name and email is validated
\* and fails, is not placed in Valid, and has the repair collaborator invoked.
C7_NotesForceRepair ==
    \A k \in RowIds :
        (Handled(k) /\ NotesWithoutExtraction(rows[k]) /\ RequiredFieldsValid(rows[k])) =>
            /\ Calls("validate", k) # {}
            /\ EntriesOf(valid_leads, k) = 0
            /\ Calls("repair", k) # {}

\* C7 as amended: the same for the rows that normalize, i.e. whose
\* contract_value and confidence_score are blank or parse as numbers.
C7_NotesForceRepairNormalized ==
    \A k \in RowIds :
        (/\ Handled(k) /\ NotesWithoutExtraction(rows[k])
         /\ RequiredFieldsValid(rows[k]) /\ Normalizes(rows[k])) =>
            /\ Calls("validate", k) # {}
            /\ EntriesOf(valid_leads, k) = 0
            /\ \E j \in Calls("repair", k) :
                   /\ hist[j].error # {}
                   /\ hist[j].error = validation_errors(prepare_row(rows[k]))
                   /\ hist[j].arg = prepare_row(rows[k])

\* a row whose only defect is the missing country_code beside its notes
C7_Witness ==
    /\ pc = "done"
    /\ \E k \in RowIds :
           /\ NotesWithoutExtraction(rows[k]) /\ RequiredFieldsValid(rows[k])
           /\ \E j \in Calls("repair", k) : hist[j].error = {"model:value_error"}

\* C8: no exception raised while a row is handled leaves process_csv, and when
\* it has returned every row has a bucket entry.
C8_NoExceptionEscapes ==
    /\ pc # "raised"
    /\ pc = "done" => \A k \in RowIds : EntriesOfRow(k) >= 1

OptionalFields ==
    {"country_code", "industry", "segment", "contract_value", "sales_notes",
     "confidence_score"}

\* C9: while a row that normalized is being handled, its mapping has the key
\* of an optional field exactly when the raw value is present and not blank,
\* and no optional key maps to None or to empty text.
C9_OptionalOmitted ==
    pc \in {"validate", "repair", "sleep_in_try", "sleep_in_except", "raised"} =>
        \A f \in OptionalFields :
            /\ (typed_row[f] # Absent) <=> NonBlank(rows[i][f])
            /\ typed_row[f] \notin {None, Str(<<>>)}

\* a blank country code left out, beside a segment that is kept
C9_Witness ==
    /\ pc = "validate"
    /\ rows[i].country_code = Str(<<" ">>)
    /\ typed_row.country_code = Absent
    /\ typed_row.segment # Absent

\* contract_value parses, after '$' and ',' are removed, to zero or less
NonPositiveContract(row) ==
    /\ NonBlank(row.contract_value)
    /\ FloatOk(contract_value_str(row.contract_value))
    /\ FloatLe(FloatVal(contract_value_str(row.contract_value)), Fin(0))

\* C10 as stated: a row whose contract_value parses to zero or a negative
\* number passes normalization, fails validation on the positivity
\* constraint and is sent to repair; it has no 'preprocessing' failure.
C10_NonPositiveToRepair ==
    \A k \in RowIds :
        (Handled(k) /\ NonPositiveContract(rows[k])) =>
            /\ Normalizes(rows[k])
            /\ \A e \in 1..Len(failed_leads) :
                   failed_leads[e].idx = k => failed_leads[e].stage # "preprocessing"
            /\ Calls("repair", k) # {}

\* C10 as amended: the same for a row whose other columns normalize (id
\* parses as an integer, the name and email columns exist, confidence_score
\* is blank or a number).
C10_NonPositiveToRepairNormalized ==
    \A k \in RowIds :
        (Handled(k) /\ NonPositiveContract(rows[k]) /\ Normalizes(rows[k])) =>
            /\ \A e \in 1..Len(failed_leads) :
                   failed_leads[e].idx = k => failed_leads[e].stage # "preprocessing"
            /\ EntriesOf(valid_leads, k) = 0
            /\ \E j \in Calls("repair", k) :
                   "contract_value:greater_than" \in hist[j].error

\* the row with contract_value "-5" has been sent to repair
C10_Witness ==
    /\ pc = "done"
    /\ \E k \in RowIds :
           /\ rows[k].contract_value = Str(<<"-", "5">>)
           /\ Calls("repair", k) # {}

(* ------------------------------------------------------------------ *)
(* C11..C20                                                           *)
(* ------------------------------------------------------------------ *)

\* C11: a contract_value that schema validation accepted is a finite number
\* strictly greater than 0: no record in valid_leads has a zero, negative,
\* NaN or infinite contract_value, so no row whose contract_value text
\* parses to infinity or NaN is in Valid.
C11_FiniteContractValue ==
    \A e \in 1..Len(valid_leads) :
        LET v == valid_leads[e].lead.contract_value
        IN  v = None \/ (v.cls = "fin" /\ v.n > 0)

\* the field constraints of the Record Schema that the mapping m violates,
\* each tested on its own
ViolatedConstraints(m) ==
    {c \in {[field |-> "id", rule |-> "ge_1"],
            [field |-> "name", rule |-> "is_text"],
            [field |-> "name", rule |-> "min_length_2"],
            [field |-> "name", rule |-> "title_case"],
            [field |-> "email", rule |-> "is_text"],
            [field |-> "email", rule |-> "address"],
            [field |-> "country_code", rule |-> "two_uppercase_letters"],
            [field |-> "industry", rule |-> "enumeration"],
            [field |-> "segment", rule |-> "enumeration"],
            [field |-> "contract_value", rule |-> "gt_0"],
            [field |-> "confidence_score", rule |-> "ge_0"],
            [field |-> "confidence_score", rule |-> "le_1"]} :
        LET v == m[c.field]
        IN  CASE c.rule = "ge_1" -> v.k = "int" /\ v.n < 1
              [] c.rule = "is_text" -> v.k # "str"
              [] c.rule = "min_length_2" -> v.k = "str" /\ Len(Strip(v.s)) < 2
              [] c.rule = "title_case" -> v.k = "str" /\ ~IsTitle(Strip(v.s))
              [] c.rule = "address" -> v.k = "str" /\ ~EmailOk(Strip(v.s))
              [] c.rule = "two_uppercase_letters" ->
                     v.k = "str" /\ ~(Len(Strip(v.s)) = 2 /\ AllIn(Strip(v.s), UpperLetters))
              [] c.rule = "enumeration" ->
                     v.k = "str" /\ v.s \notin (IF c.field = "industry" THEN Industry ELSE Segment)
              [] c.rule = "gt_0" -> v.k = "float" /\ ~FloatGt(v, Fin(0))
              [] c.rule = "ge_0" -> v.k = "float" /\ ~FloatGe(v, Fin(0))
              [] c.rule = "le_1" -> v.k = "float" /\ ~FloatLe(v, Fin(100))}

ViolatedOn(m, f) == {c \in ViolatedConstraints(m) : c.field = f}

\* the errors of a ValidationError that are about field f
ErrorsOn ==
    [id |-> {"id:int_type", "id:greater_than_equal"},
     name |-> {"name:string_type", "name:string_too_short", "name:value_error"},
     email |-> {"email:string_type", "email:value_error"},
     country_code |-> {"country_code:string_type", "country_code:string_pattern_mismatch"},
     industry |-> {"industry:enum"},
     segment |-> {"segment:enum"},
     contract_value |-> {"contract_value:float_type", "contract_value:greater_than"},
     sales_notes |-> {"sales_notes:string_type"},
     confidence_score |->
         {"confidence_score:float_type", "confidence_score:greater_than_equal",
          "confidence_score:less_than_equal"}]

\* C12 as stated: the validation error of a mapping has one error for every
\* field constraint the mapping violates, also for two constraints of the
\* same field.
C12_EveryViolationReported ==
    pc = "repair" =>
        \A f \in FieldNames :
            Cardinality(validation_error \cap ErrorsOn[f])
                = Cardinality(ViolatedOn(typed_row, f))

\* C12 as amended: the validation error has exactly one error for every field
\* that violates at least one of its constraints, whatever the other fields
\* are, and none for a field that violates none; the cross-field error is
\* reported exactly when no field constraint is violated.
C12_EveryFailingFieldReported ==
    pc = "repair" =>
        /\ \A f \in FieldNames :
               Cardinality(validation_error \cap ErrorsOn[f])
                   = IF ViolatedOn(typed_row, f) = {} THEN 0 ELSE 1
        /\ ("model:value_error" \in validation_error)
               <=> (ViolatedConstraints(typed_row) = {})
        /\ validation_error \subseteq
               UNION {ErrorsOn[f] : f \in FieldNames} \cup {"model:value_error"}

\* two failing fields, each reported, the name for its length only
C12_Witness ==
    /\ pc = "repair"
    /\ validation_error = {"name:string_too_short", "country_code:string_pattern_mismatch"}
    /\ Cardinality(ViolatedOn(typed_row, "name")) = 2

\* str.title(): a letter that follows an uncased character is uppercased,
\* a letter that follows a letter is lowercased, other characters are kept
RECURSIVE TitleFrom(_, _)
TitleFrom(s, prevCased) ==
    IF s = <<>> THEN <<>>
    ELSE IF Head(s) \in UpperLetters \cup LowerLetters
         THEN <<IF prevCased THEN LowerOf(Head(s)) ELSE UpperOf(Head(s))>>
                  \o TitleFrom(Tail(s), TRUE)
    ELSE <<Head(s)>> \o TitleFrom(Tail(s), FALSE)

Title(s) == TitleFrom(s, FALSE)

\* the normalized mapping with its name title-cased and nothing else changed
Retitled(m) == [m EXCEPT !.name = Str(Title(m.name.s))]

\* the only schema violation of the normalized row is the Title Case check:
\* it is the one error reported, and the cross-field rule, which is not
\* evaluated when a field fails, holds of the row as well
OnlyTitleCaseFails ==
    /\ pc = "repair"
    /\ validation_error = {"name:value_error"}
    /\ model_post_init(build_lead(typed_row)) = {}

HasLetter(s) == \E k \in 1..Len(s) : s[k] \in UpperLetters \cup LowerLetters

\* C13 as stated: a normalized mapping whose only schema violation is the
\* Title Case check of name passes schema validation once name is replaced by
\* its title-cased form.
C13_RetitledValidates ==
    OnlyTitleCaseFails => model_validate_ok(Retitled(typed_row))

\* C13 as amended: a normalized mapping whose only schema violation is the
\* Title Case check of name, and whose name has at least one letter, passes
\* schema validation once name is replaced by its title-cased form, and the
\* validated record differs from the mapping's in name only.
C13_RetitledWithLetterValidates ==
    (OnlyTitleCaseFails /\ HasLetter(typed_row.name.s)) =>
        /\ model_validate_ok(Retitled(typed_row))
        /\ build_lead(Retitled(typed_row)).name = Str(Title(Strip(typed_row.name.s)))
        /\ \A f \in FieldNames \ {"name"} :
               build_lead(Retitled(typed_row))[f] = build_lead(typed_row)[f]

\* a two-word lowercase name is the row's only defect
C13_Witness ==
    /\ OnlyTitleCaseFails
    /\ typed_row.name = Str(<<"a", "l", " ", "x", "u">>)
    /\ Retitled(typed_row).name = Str(<<"A", "l", " ", "X", "u">>)

\* the entry holds the row as it was read
HoldsRawRow(e) ==
    \/ "row" \in DOMAIN e /\ e.row = rows[e.idx]
    \/ "original" \in DOMAIN e /\ e.original = rows[e.idx]

\* the entry of a returned repair: the row as read, the new record with its
\* full field set, and the validation error of the normalized row
RepairEntryComplete(e) ==
    /\ e.original = rows[e.idx]
    /\ DOMAIN e.repaired = FieldNames
    /\ \A f \in FieldNames : e.repaired[f] # Absent
    /\ e.error_fixed # {}
    /\ e.error_fixed = validation_errors(prepare_row(rows[e.idx]))

\* C14 as stated: every entry of every bucket holds the row as it was read;
\* Repaired and LowConfidence entries also hold the new record's full field
\* set and the validation error that led to the repair.
C14_EveryEntryHoldsRawRow ==
    /\ \A e \in 1..Len(valid_leads) : HoldsRawRow(valid_leads[e])
    /\ \A e \in 1..Len(failed_leads) : HoldsRawRow(failed_leads[e])
    /\ \A e \in 1..Len(repaired_leads) : RepairEntryComplete(repaired_leads[e])
    /\ \A e \in 1..Len(low_confidence_leads) :
           RepairEntryComplete(low_confidence_leads[e])

\* C14 as amended: every Repaired, LowConfidence and Failed entry holds the
\* row as it was read; Repaired and LowConfidence entries also hold the new
\* record's full field set and the validation error that led to the repair;
\* a Valid entry holds the validated record only, not the row as read.
C14_NonValidEntriesHoldRawRow ==
    /\ \A e \in 1..Len(failed_leads) : HoldsRawRow(failed_leads[e])
    /\ \A e \in 1..Len(repaired_leads) : RepairEntryComplete(repaired_leads[e])
    /\ \A e \in 1..Len(low_confidence_leads) :
           RepairEntryComplete(low_confidence_leads[e])
    /\ \A e \in 1..Len(valid_leads) :
           /\ DOMAIN valid_leads[e] = {"idx", "lead"}
           /\ valid_leads[e].lead =
                  model_dump(build_lead(prepare_row(rows[valid_leads[e].idx])))
           /\ valid_leads[e].lead # rows[valid_leads[e].idx]

\* a run that left a Repaired entry for a row whose normalized form differs
\* from the row as read, a Failed entry and a Valid entry
C14_Witness ==
    /\ pc = "done"
    /\ \E e \in 1..Len(repaired_leads) :
           /\ prepare_row(repaired_leads[e].original) # repaired_leads[e].original
           /\ repaired_leads[e].idx = 1
    /\ Len(valid_leads) + Len(failed_leads) = 1

\* the entries of a bucket are in the order of their rows in the input
InInputOrder(bucket) ==
    \A j, k \in 1..Len(bucket) : j < k => bucket[j].idx < bucket[k].idx

\* C15: rows are processed one at a time in input order: the calls made are
\* in row order, the normalization of a row starts only when every earlier
\* row has its bucket entry, no entry belongs to a row that has not been
\* started, and in each of the four buckets the entries are in the order of
\* their rows in the input.
C15_SequentialInOrder ==
    /\ \A j \in 1..(Len(hist) - 1) : hist[j].row <= hist[j + 1].row
    /\ \A k \in RowIds :
           Calls("prepare", k) # {} => \A earlier \in 1..(k - 1) : EntriesOfRow(earlier) >= 1
    /\ \A k \in RowIds : EntriesOfRow(k) >= 1 => Calls("prepare", k) # {}
    /\ \A k \in RowIds : Cardinality(Calls("prepare", k)) <= 1
    /\ InInputOrder(valid_leads)
    /\ InInputOrder(repaired_leads)
    /\ InInputOrder(low_confidence_leads)
    /\ InInputOrder(failed_leads)

\* two different rows that both ended in Failed, the first at preprocessing
\* and the second at repair
C15_Witness ==
    /\ pc = "done"
    /\ Len(failed_leads) = 2
    /\ failed_leads[1].idx = 1 /\ failed_leads[1].stage = "preprocessing"
    /\ failed_leads[2].idx = 2 /\ failed_leads[2].stage = "repair"

\* the pacing delays that took place for row k: the time.sleep calls that
\* returned
DelaysOf(k) == {j \in Calls("sleep", k) : hist[j].completed}

\* C16: once the loop has left a row, exactly one pacing delay of length
\* delay_between_repairs has taken place for it if repair_lead was called for
\* it, whether the call returned or raised, and none if it was not (the row
\* ended in Valid or in Failed at preprocessing).
C16_OneDelayPerRepair ==
    \A k \in RowIds :
        (k < i \/ pc = "raised") =>
            /\ Cardinality(DelaysOf(k)) = IF Calls("repair", k) # {} THEN 1 ELSE 0
            /\ Cardinality(Calls("sleep", k)) = Cardinality(DelaysOf(k))
            /\ \A j \in DelaysOf(k) : hist[j].secs = delay_between_repairs

\* C17: when min_confidence is 0, low_confidence_leads is empty in every
\* state of a run, and every repair call that returned a record has its row
\* in repaired_leads, whatever the input rows are and whatever record the
\* repair collaborator returned.
C17_ZeroThresholdNoLowConfidence ==
    min_confidence = Fin(0) =>
        /\ low_confidence_leads = <<>>
        /\ \A j \in 1..Len(hist) :
               (hist[j].op = "repair" /\ hist[j].returned) =>
                   EntriesOf(repaired_leads, hist[j].row) = 1

\* a finished run with threshold 0 in which a repair of confidence 0 was
\* stored as Repaired
C17_Witness ==
    /\ pc = "done"
    /\ min_confidence = Fin(0)
    /\ \E e \in 1..Len(repaired_leads) :
           repaired_leads[e].repaired.confidence_score = Fin(0)

\* the row's name is the empty string and the row normalizes
EmptyNameRow(row) == row.name = Str(<<>>) /\ Normalizes(row)

\* C18: a row whose name is the empty string and that normalizes fails schema
\* validation on the length of name, has repair_lead called once, and ends in
\* failed_leads with stage 'repair'; it never has an entry in repaired_leads
\* or low_confidence_leads.
C18_EmptyNameEndsFailed ==
    \A k \in RowIds :
        EmptyNameRow(rows[k]) =>
            /\ "name:string_too_short" \in validation_errors(prepare_row(rows[k]))
            /\ EntriesOf(repaired_leads, k) = 0
            /\ EntriesOf(low_confidence_leads, k) = 0
            /\ Handled(k) =>
                   /\ Cardinality(Calls("repair", k)) = 1
                   /\ \E e \in 1..Len(failed_leads) :
                          failed_leads[e].idx = k /\ failed_leads[e].stage = "repair"

\* the stored record satisfies every field constraint and the cross-field
\* rule on sales_notes
Conformant(record) ==
    /\ DOMAIN record = FieldNames
    /\ field_errors(record) = {}
    /\ model_post_init(record) = {}
    /\ model_dump(build_lead(record)) = record

\* C19: every record stored in repaired_leads or low_confidence_leads
\* satisfies all schema constraints, the cross-field rule on sales_notes
\* included, and is the output of a repair call that returned.
C19_RepairedConformant ==
    /\ \A e \in 1..Len(repaired_leads) : Conformant(repaired_leads[e].repaired)
    /\ \A e \in 1..Len(low_confidence_leads) :
           Conformant(low_confidence_leads[e].repaired)
    /\ \A j \in 1..Len(hist) :
           (hist[j].op = "repair" /\ hist[j].returned) => Conformant(hist[j].out)

\* a finished run with a Repaired and a LowConfidence entry, the latter
\* without country_code
C19_Witness ==
    /\ pc = "done"
    /\ Len(repaired_leads) = 1
    /\ Len(low_confidence_leads) = 1
    /\ low_confidence_leads[1].repaired.country_code = None
    /\ low_confidence_leads[1].repaired.sales_notes = None

(* ------------------------------------------------------------------ *)
(* Several process_csv calls on one DataProcessor                     *)
(* ------------------------------------------------------------------ *)

\* most process_csv calls made on one DataProcessor
MaxRuns == 2

\* the input files of the calls
RunInputs ==
    {<<>>,
     <<CleanRow>>,
     <<[CleanRow EXCEPT !.name = Str(<<"a", "l">>)]>>,
     <<CleanRow, [CleanRow EXCEPT !.name = Str(<<"a", "l">>)]>>}

\* number of the process_csv call the processor is in
RunNumber == 1 + Cardinality({j \in 1..Len(hist) : hist[j].op = "start"})

\* a further process_csv(input_path) call on the same DataProcessor: it
\* reads its rows and starts the loop; the buckets are those __init__ made
process_csv_again ==
    /\ Finished
    /\ RunNumber < MaxRuns
    /\ rows' \in RunInputs
    /\ i' = 1
    /\ pc' = IF rows' = <<>> THEN "done" ELSE "prepare"
    /\ typed_row' = None
    /\ validation_error' = {}
    /\ hist' = Append(hist, [op |-> "start", row |-> 0])
    /\ UNCHANGED <<min_confidence, delay_between_repairs, buckets, files>>

InitRuns == Init /\ rows \in RunInputs

NextRuns == Next \/ process_csv_again

SpecRuns == InitRuns /\ [][NextRuns]_vars

\* C20: when a process_csv call has finished, the four buckets hold exactly
\* one entry for each row of that call's input and nothing else, so nothing
\* is left over from an earlier call.  (Stated for pacing delays that
\* time.sleep accepts, which leaves C8's escaping exception out.)
C20_BucketsOfThisRunOnly ==
    (Finished /\ ~time_sleep_raises(delay_between_repairs)) =>
        /\ \A k \in RowIds : EntriesOfRow(k) = 1
        /\ Len(valid_leads) + Len(repaired_leads) + Len(low_confidence_leads)
               + Len(failed_leads) = Len(rows)

(* ------------------------------------------------------------------ *)
(* Result Sink: DataProcessor.save_results                            *)
(* ------------------------------------------------------------------ *)

\* json.dump(bucket, f): the list of the bucket's dicts; idx is not part of
\* an entry the program holds, so it is not written
json_dump(bucket) ==
    [e \in 1..Len(bucket) |->
        [key \in DOMAIN bucket[e] \ {"idx"} |-> bucket[e][key]]]

\* the low_confidence.json an earlier run of the clean command left behind
EarlierLowConfidence ==
    <<[original |-> [NotesRow EXCEPT !.country_code = Str(<<>>)],
       repaired |-> model_dump(RepairedLead(None, Fin(0))),
       error_fixed |-> {"model:value_error"}]>>

\* the output directory before the run: new, or written by an earlier run
\* that had a LowConfidence record
OutputDirs ==
    {EmptyDir,
     [valid |-> File(<<>>), repaired |-> File(<<>>), failed |-> File(<<>>),
      low_confidence |-> File(EarlierLowConfidence)]}

\* save_results(output_dir) after process_csv has returned: valid.json,
\* repaired.json and failed.json are written, low_confidence.json only
\* when the bucket is not empty
save_results ==
    /\ pc = "done"
    /\ output_dir' =
           [output_dir EXCEPT
               !.valid = File(json_dump(valid_leads)),
               !.repaired = File(json_dump(repaired_leads)),
               !.failed = File(json_dump(failed_leads)),
               !.low_confidence =
                   IF low_confidence_leads # <<>>
                   THEN File(json_dump(low_confidence_leads))
                   ELSE @]
    /\ pc' = "saved"
    /\ UNCHANGED <<config, buckets, i, typed_row, validation_error, hist, generated>>

InitSave == Constructed /\ rows \in RunInputs /\ output_dir \in OutputDirs

NextSave == Next \/ save_results

SpecSave == InitSave /\ [][NextSave]_vars

\* C21: after save_results, valid.json, repaired.json and failed.json hold
\* the current contents of their buckets, and the output directory holds a
\* low_confidence.json exactly when this run's low_confidence_leads is not
\* empty, in which case it holds that bucket's contents.
C21_SavedMatchesBuckets ==
    pc = "saved" =>
        /\ output_dir.valid = File(json_dump(valid_leads))
        /\ output_dir.repaired = File(json_dump(repaired_leads))
        /\ output_dir.failed = File(json_dump(failed_leads))
        /\ output_dir.low_confidence.exists <=> (low_confidence_leads # <<>>)
        /\ low_confidence_leads # <<>> =>
               output_dir.low_confidence = File(json_dump(low_confidence_leads))

(* ------------------------------------------------------------------ *)
(* Progress of a run                                                  *)
(* ------------------------------------------------------------------ *)

\* process_csv is one sequential loop: a statement that can run does run,
\* and the repair call it waits for returns or raises
\* the input files of the runs checked for progress: rows that end in
\* Valid, in a repair and in Failed at preprocessing
FairInputs ==
    {<<[CleanRow EXCEPT !.name = Str(<<"a", "l">>)]>>,
     <<CleanRow, [CleanRow EXCEPT !.name = Str(<<"a", "l">>)]>>,
     <<[CleanRow EXCEPT !.id = Str(<<"x">>)],
       [CleanRow EXCEPT !.name = Str(<<"a", "l">>)]>>}

InitFair == Init /\ rows \in FairInputs

FairSpec == InitFair /\ [][Next]_vars /\ WF_vars(Next)

\* the state of row k in the record life cycle; a row with entries in two
\* buckets is in the state of the later entry, which is the Failed one
RowState(k) ==
    IF k > i THEN "Pending"
    ELSE IF k = i /\ pc = "prepare" THEN "Normalizing"
    ELSE IF k = i /\ pc = "validate" THEN "Validating"
    ELSE IF k = i /\ pc = "repair" THEN "Repairing"
    ELSE IF EntriesOf(failed_leads, k) > 0 THEN "Failed"
    ELSE IF EntriesOf(repaired_leads, k) > 0 THEN "Repaired"
    ELSE IF EntriesOf(low_confidence_leads, k) > 0 THEN "LowConfidence"
    ELSE IF EntriesOf(valid_leads, k) > 0 THEN "Valid"
    ELSE "None"

TerminalStates == {"Valid", "Repaired", "LowConfidence", "Failed"}

\* the transitions of the record life cycle, and the start of a row
ListedTransitions ==
    {<<"Pending", "Normalizing">>,
     <<"Normalizing", "Validating">>,
     <<"Validating", "Valid">>,
     <<"Validating", "Repairing">>,
     <<"Repairing", "Repaired">>,
     <<"Repairing", "LowConfidence">>,
     <<"Repairing", "Failed">>}

AllRowsTerminal == \A k \in RowIds : RowState(k) \in TerminalStates

OnlyListedTransitions ==
    \A k \in RowIds :
        \/ RowState(k)' = RowState(k)
        \/ <<RowState(k), RowState(k)'>> \in ListedTransitions

\* C22: a run in which every repair call returns or raises eventually ends
\* with process_csv returned and every row in Valid, Repaired, LowConfidence
\* or Failed, none left Pending, Normalizing, Validating or Repairing.
C22_TerminatesAllTerminal == <>(pc = "done" /\ AllRowsTerminal)

\* the second half of C22: a row changes state only along Normalizing ->
\* Validating -> {Valid | Repairing} -> {Repaired | LowConfidence | Failed}
C22_ListedTransitionsOnly == [][OnlyListedTransitions]_vars

(* ------------------------------------------------------------------ *)
(* C23..C25                                                           *)
(* ------------------------------------------------------------------ *)

\* the row normalizes to a mapping with non-empty sales_notes, with
\* country_code, industry and contract_value present, without segment, and
\* with every field that is present valid
NotesWithoutSegment(row) ==
    /\ Normalizes(row)
    /\ LET m == prepare_row(row)
       IN  /\ m.sales_notes # Absent /\ Strip(m.sales_notes.s) # <<>>
           /\ m.country_code # Absent
           /\ m.industry # Absent
           /\ m.contract_value # Absent
           /\ m.segment = Absent
           /\ field_errors(m) = {}

\* C23: a row with non-empty sales_notes and valid country_code, industry and
\* contract_value but no segment passes schema validation; once handled it
\* has one entry, in valid_leads, with segment None, and repair_lead was not
\* called for it.
C23_SegmentNotRequired ==
    \A k \in RowIds :
        NotesWithoutSegment(rows[k]) =>
            /\ model_validate_ok(prepare_row(rows[k]))
            /\ Calls("repair", k) = {}
            /\ Handled(k) =>
                   /\ EntriesOfRow(k) = 1
                   /\ \E e \in 1..Len(valid_leads) :
                          /\ valid_leads[e].idx = k
                          /\ valid_leads[e].lead.segment = None
                          /\ valid_leads[e].lead.sales_notes # None

C23_Witness ==
    /\ pc = "done"
    /\ Len(rows) = 1
    /\ NotesWithoutSegment(rows[1])
    /\ Len(valid_leads) = 1
    /\ valid_leads[1].lead.segment = None
    /\ valid_leads[1].lead.sales_notes = Str(<<"h", "i">>)

\* the row normalizes and validates as it is
ValidatesDirectly(row) == Normalizes(row) /\ model_validate_ok(prepare_row(row))

\* C24: a row that validates directly never has an entry in
\* low_confidence_leads or repaired_leads; once handled it has its one entry in
\* valid_leads, whatever its own confidence_score and whatever min_confidence
\* is.
C24_ThresholdOnlyForRepairs ==
    \A k \in RowIds :
        ValidatesDirectly(rows[k]) =>
            /\ EntriesOf(low_confidence_leads, k) = 0
            /\ EntriesOf(repaired_leads, k) = 0
            /\ Handled(k) => (EntriesOf(valid_leads, k) = 1 /\ EntriesOfRow(k) = 1)

\* a row of confidence 0.0 in Valid under the threshold 1.0
C24_Witness ==
    /\ pc = "done"
    /\ min_confidence = Fin(100)
    /\ \E e \in 1..Len(valid_leads) :
           /\ valid_leads[e].lead.confidence_score = Fin(0)
           /\ ValidatesDirectly(rows[valid_leads[e].idx])
    /\ low_confidence_leads = <<>>

\* the error of validating the normalized mapping of row k
ErrorOfRow(k) == validation_errors(prepare_row(rows[k]))

\* C25: every repair_lead call for a row is given that row's normalized
\* mapping and the error of validating it, and the error recorded for the
\* row, as error_fixed of a Repaired or LowConfidence entry or as
\* validation_error of a Failed entry of stage 'repair', is that same error,
\* never the error of an earlier row.
C25_ErrorOfSameRow ==
    /\ \A j \in 1..Len(hist) :
           hist[j].op = "repair" =>
               /\ hist[j].arg = prepare_row(rows[hist[j].row])
               /\ hist[j].error = ErrorOfRow(hist[j].row)
               /\ hist[j].error # {}
    /\ \A e \in 1..Len(repaired_leads) :
           repaired_leads[e].error_fixed = ErrorOfRow(repaired_leads[e].idx)
    /\ \A e \in 1..Len(low_confidence_leads) :
           low_confidence_leads[e].error_fixed = ErrorOfRow(low_confidence_leads[e].idx)
    /\ \A e \in 1..Len(failed_leads) :
           failed_leads[e].stage = "repair" =>
               failed_leads[e].validation_error = ErrorOfRow(failed_leads[e].idx)

\* two rows repaired in one run, each for an error of its own
C25_Witness ==
    /\ pc = "done"
    /\ Len(rows) = 2
    /\ Len(repaired_leads) = 2
    /\ repaired_leads[1].error_fixed = {"name:value_error"}
    /\ repaired_leads[2].error_fixed = {"model:value_error"}

(* ------------------------------------------------------------------ *)
(* The legacy pipeline: data_repair.processor.DataProcessor           *)
(* ------------------------------------------------------------------ *)

\* the exception the legacy _prepare_row raises, "" when it returns:
\* contract_value_str is computed first, then the dict entries in order
legacy_prepare_row_error(row) ==
    IF row.contract_value.k = "absent" THEN "KeyError:contract_value"
    ELSE IF row.contract_value.k = "none" THEN "AttributeError:contract_value"
    ELSE IF row.id.k = "absent" THEN "KeyError:id"
    ELSE IF row.id.k = "none" THEN "TypeError:id"
    ELSE IF ~IntOk(row.id.s) THEN "ValueError:id"
    ELSE IF row.name.k = "absent" THEN "KeyError:name"
    ELSE IF row.email.k = "absent" THEN "KeyError:email"
    ELSE IF row.country_code.k = "absent" THEN "KeyError:country_code"
    ELSE IF row.segment.k = "absent" THEN "KeyError:segment"
    ELSE IF ~FloatOk(contract_value_str(row.contract_value))
         THEN "ValueError:contract_value"
    ELSE ""

\* the mapping the legacy _prepare_row returns: the six legacy keys, blank
\* values included
legacy_prepare_row(row) ==
    [id |-> IntV(IntVal(row.id.s)),
     name |-> row.name,
     email |-> row.email,
     country_code |-> row.country_code,
     industry |-> Absent,
     segment |-> row.segment,
     contract_value |-> FloatVal(contract_value_str(row.contract_value)),
     sales_notes |-> Absent,
     confidence_score |-> Absent]

\* the bucket the legacy process_csv appends the row to, given whether the
\* repair call, if there is one, returned
legacy_bucket(row, returned) ==
    IF legacy_prepare_row_error(row) # "" THEN "failed:preprocessing"
    ELSE IF model_validate_ok(legacy_prepare_row(row)) THEN "valid"
    ELSE IF returned THEN "repaired"
    ELSE "failed:repair"

\* values of the legacy columns in the inputs explored
LegacyRawValues ==
    [id |-> {Str(<<"7">>), Str(<<"x">>)},
     name |-> {Str(<<"A", "l">>), Str(<<"a", "l">>), Str(<<>>)},
     email |-> {Str(<<"a", "@", "x", ".", "e", "u">>), Str(<<"a", "x">>)},
     country_code |-> {Str(<<"U", "S">>), Str(<<"u", "s">>), Str(<<" ", "U", "S">>),
                       Str(<<>>)},
     segment |-> {Str(<<"S", "M", "B">>), Str(<<"s", "m", "b">>), Str(<<" ">>)},
     contract_value |->
         {Str(<<"5", "0">>), Str(<<"$", "1", ",", "0", "0", "0", ".", "5", "0">>),
          Str(<<"-", "5">>), Str(<<"x">>), Str(<<"$">>), Str(<<>>)},
     industry |-> {Absent},
     sales_notes |-> {Absent},
     confidence_score |-> {Absent}]

\* rows of a file whose header has the legacy columns only
LegacyRows ==
    {[id |-> id, name |-> name, email |-> email, country_code |-> country_code,
      industry |-> Absent, segment |-> segment, contract_value |-> contract_value,
      sales_notes |-> Absent, confidence_score |-> Absent] :
        id \in LegacyRawValues.id, name \in LegacyRawValues.name,
        email \in LegacyRawValues.email,
        country_code \in LegacyRawValues.country_code,
        segment \in LegacyRawValues.segment,
        contract_value \in LegacyRawValues.contract_value}

LegacyClean ==
    [CleanRow EXCEPT !.industry = Absent, !.sales_notes = Absent,
                     !.confidence_score = Absent]

LegacyRowLists ==
    {<<row>> : row \in LegacyRows}
    \cup {<<first, LegacyClean>> :
             first \in {LegacyClean,
                        [LegacyClean EXCEPT !.name = Str(<<"a", "l">>)],
                        [LegacyClean EXCEPT !.id = Str(<<"x">>)]}}

\* the semantic pipeline with min_confidence = 0 on a legacy file
InitLegacy ==
    /\ rows \in LegacyRowLists
    /\ Started
    /\ min_confidence = Fin(0)
    /\ output_dir = EmptyDir

SpecLegacy == InitLegacy /\ [][Next]_vars

\* the row has the legacy columns only, with country_code, segment and
\* contract_value non-blank
LegacyNonBlank(row) ==
    /\ row.industry = Absent /\ row.sales_notes = Absent
    /\ row.confidence_score = Absent
    /\ NonBlank(row.country_code) /\ NonBlank(row.segment)
    /\ NonBlank(row.contract_value)

\* the buckets of the semantic pipeline that hold an entry of row k
BucketsOfRow(k) ==
    {b \in {"valid", "repaired", "low_confidence", "failed:preprocessing",
            "failed:repair"} :
        CASE b = "valid" -> EntriesOf(valid_leads, k) > 0
          [] b = "repaired" -> EntriesOf(repaired_leads, k) > 0
          [] b = "low_confidence" -> EntriesOf(low_confidence_leads, k) > 0
          [] OTHER ->
                 \E e \in 1..Len(failed_leads) :
                     /\ failed_leads[e].idx = k
                     /\ "failed:" \o failed_leads[e].stage = b}

\* the repair call made for row k returned
RepairReturned(k) == \E j \in Calls("repair", k) : hist[j].returned

\* C26: when the semantic pipeline with min_confidence = 0 has finished a
\* file of rows with the legacy columns only and non-blank country_code,
\* segment and contract_value, every row is in exactly the bucket the legacy
\* pipeline puts it in for the same outcome of the repair call, the repair
\* call was given the mapping the legacy pipeline gives it, and the entries
\* of each bucket are in input order.
C26_SameBucketAsLegacy ==
    (Finished /\ \A k \in RowIds : LegacyNonBlank(rows[k])) =>
        /\ \A k \in RowIds :
               /\ BucketsOfRow(k) = {legacy_bucket(rows[k], RepairReturned(k))}
               /\ \A j \in Calls("repair", k) : hist[j].arg = legacy_prepare_row(rows[k])
        /\ InInputOrder(valid_leads)
        /\ InInputOrder(repaired_leads)
        /\ InInputOrder(failed_leads)

(* ------------------------------------------------------------------ *)
(* Sample data: the generate command and generate_sample_data         *)
(* ------------------------------------------------------------------ *)

\* smallest --size the generate command accepts
MinSize == 10
\* largest size explored (the command accepts up to 10000)
MaxSize == 60
Sizes == MinSize..MaxSize

\* number of dicts in the literal incomplete_data
IncompleteRecords == 25
\* number of dicts in the literal unfixable_data
UnfixableRecords == 5

\* int(size * 0.40), int(size * 0.50) and the remainder
clean_count == (size * 40) \div 100
incomplete_count == (size * 50) \div 100
unfixable_count == size - clean_count - incomplete_count

\* data[:n] for n >= 0
Slice(data, n) == SubSeq(data, 1, IF n < Len(data) THEN n ELSE Len(data))

\* the literal lists, a record reduced to its id and its kind
incomplete_data ==
    [j \in 1..IncompleteRecords |-> [id |-> clean_count + j, kind |-> "incomplete"]]

unfixable_data ==
    [j \in 1..UnfixableRecords |->
        [id |-> clean_count + incomplete_count + j, kind |-> "unfixable"]]

\* for i in range(1, clean_count + 1): leads.append({...})
append_clean ==
    /\ pc = "clean_records"
    /\ i <= clean_count
    /\ leads' = Append(leads, [id |-> i, kind |-> "clean"])
    /\ i' = i + 1
    /\ UNCHANGED <<config, output_dir, size, csv_file, buckets, pc, typed_row,
                   validation_error, hist>>

\* leads.extend(incomplete_data[:incomplete_count])
extend_incomplete ==
    /\ pc = "clean_records"
    /\ i > clean_count
    /\ leads' = leads \o Slice(incomplete_data, incomplete_count)
    /\ pc' = "unfixable_records"
    /\ UNCHANGED <<config, output_dir, size, csv_file, buckets, i, typed_row,
                   validation_error, hist>>

\* leads.extend(unfixable_data[:unfixable_count])
extend_unfixable ==
    /\ pc = "unfixable_records"
    /\ leads' = leads \o Slice(unfixable_data, unfixable_count)
    /\ pc' = "write_csv"
    /\ UNCHANGED <<config, output_dir, size, csv_file, buckets, i, typed_row,
                   validation_error, hist>>

\* writer.writeheader(); writer.writerows(leads); then the command prints
\* "Generated {size} sample records"
write_csv ==
    /\ pc = "write_csv"
    /\ csv_file' = File(leads)
    /\ pc' = "generated"
    /\ UNCHANGED <<config, output_dir, size, leads, buckets, i, typed_row,
                   validation_error, hist>>

\* the generate command with a --size it accepts; no DataProcessor runs
InitGenerate ==
    /\ size \in Sizes
    /\ leads = <<>>
    /\ csv_file = NoFile
    /\ i = 1
    /\ pc = "clean_records"
    /\ rows = <<>>
    /\ min_confidence = Fin(0)
    /\ delay_between_repairs = Fin(0)
    /\ valid_leads = <<>>
    /\ repaired_leads = <<>>
    /\ low_confidence_leads = <<>>
    /\ failed_leads = <<>>
    /\ typed_row = None
    /\ validation_error = {}
    /\ hist = <<>>
    /\ output_dir = EmptyDir

NextGenerate == append_clean \/ extend_incomplete \/ extend_unfixable \/ write_csv

SpecGenerate == InitGenerate /\ [][NextGenerate]_vars

\* the records of one kind in the written file
WrittenOf(kind) ==
    Cardinality({j \in 1..Len(csv_file.content) : csv_file.content[j].kind = kind})

\* C27: when the generate command has finished, the file holds exactly size
\* records: the clean, incomplete and unfixable records written sum to the
\* size the command reports.
C27_WritesSizeRecords ==
    pc = "generated" =>
        /\ csv_file.exists
        /\ Len(csv_file.content) = size
        /\ WrittenOf("clean") + WrittenOf("incomplete") + WrittenOf("unfixable") = size

====
